---- MODULE Spec2Model ----
(***************************************************************************)
(* Datasaur MCP server (src/main.py): the relay tools process_and_send_csv *)
(* and call_*, and convert_csv_to_json which feeds process_and_send_csv.   *)
(*                                                                         *)
(* Python values are tagged records [t |-> <type>, v |-> <value>]; a       *)
(* Python str is a TLA+ string; a dict is the sequence of its items in     *)
(* insertion order.  The result of evaluating Python code is an outcome:   *)
(* a returned value or a raised exception.                                 *)
(***************************************************************************)
EXTENDS Integers, Sequences, FiniteSets, TLC

VARIABLES
    globals,    \* the module-level DATASAUR_* settings, read from the environment at import
    calls,      \* the tool invocations made so far, in the order they were made
    posts,      \* the requests handed to httpx's client.post, in the order they were made
    process     \* the server process: where __main__ is, TRANSPORT of its environment, its exit status

vars == <<globals, calls, posts, process>>

-----------------------------------------------------------------------------
(* Python strings *)

Char(s, i) == SubSeq(s, i, i)

DigitChars == {"0", "1", "2", "3", "4", "5", "6", "7", "8", "9"}

\* str.count(c) for a one-character c
Count(s, c) == Cardinality({i \in 1..Len(s) : Char(s, i) = c})

\* c in s, for a one-character c
HasChar(s, c) == \E i \in 1..Len(s) : Char(s, i) = c

\* sub in s (Python's substring test on str)
Contains(s, sub) ==
    \E i \in 1..(Len(s) - Len(sub) + 1) : SubSeq(s, i, i + Len(sub) - 1) = sub

\* s[i:].startswith(p)
StartsAt(s, i, p) == i + Len(p) - 1 <= Len(s) /\ SubSeq(s, i, i + Len(p) - 1) = p

\* str.isdecimal(): the characters int() and float() read as digits (the
\* decimal digits of other scripts behave as these and are not among the inputs)
IsDecimal(s) == Len(s) > 0 /\ \A i \in 1..Len(s) : Char(s, i) \in DigitChars

\* characters that are digits for str.isdigit() and not for int(): the
\* superscript digits (Unicode Numeric_Type=Digit, not Decimal)
NonDecimalDigits == {"²", "³", "¹"}

\* s[i:] is made of digit characters only
RECURSIVE DigitsFrom(_, _)
DigitsFrom(s, i) ==
    \/ i > Len(s)
    \/ \E d \in DigitChars \cup NonDecimalDigits :
           StartsAt(s, i, d) /\ DigitsFrom(s, i + Len(d))

\* str.isdigit()
IsDigit(s) == Len(s) > 0 /\ DigitsFrom(s, 1)

\* str.replace(c, '', 1) for a one-character c
RemoveFirst(s, c) ==
    IF HasChar(s, c)
    THEN LET i == CHOOSE k \in 1..Len(s) :
                      Char(s, k) = c /\ \A j \in 1..(k - 1) : Char(s, j) # c
         IN SubSeq(s, 1, i - 1) \o SubSeq(s, i + 1, Len(s))
    ELSE s

DigitVal(c) ==
    CASE c = "0" -> 0 [] c = "1" -> 1 [] c = "2" -> 2 [] c = "3" -> 3
      [] c = "4" -> 4 [] c = "5" -> 5 [] c = "6" -> 6 [] c = "7" -> 7
      [] c = "8" -> 8 [] c = "9" -> 9

\* int(s) for a string of digits
RECURSIVE StrToNat(_)
StrToNat(s) ==
    IF Len(s) = 0 THEN 0
    ELSE StrToNat(SubSeq(s, 1, Len(s) - 1)) * 10 + DigitVal(Char(s, Len(s)))

RECURSIVE StripLeadingZeros(_)
StripLeadingZeros(s) ==
    IF Len(s) > 1 /\ Char(s, 1) = "0" THEN StripLeadingZeros(SubSeq(s, 2, Len(s))) ELSE s

RECURSIVE StripTrailingZeros(_)
StripTrailingZeros(s) ==
    IF Len(s) > 1 /\ Char(s, Len(s)) = "0"
    THEN StripTrailingZeros(SubSeq(s, 1, Len(s) - 1)) ELSE s

\* repr(float(<ip>.<fp>)): a float is kept as its repr, which is the shortest
\* decimal for the magnitudes of the inputs below (no exponent form)
FloatRepr(neg, ip, fp) ==
    (IF neg THEN "-" ELSE "")
      \o StripLeadingZeros(IF ip = "" THEN "0" ELSE ip)
      \o "." \o StripTrailingZeros(IF fp = "" THEN "0" ELSE fp)

RECURSIVE Spaces(_)
Spaces(n) == IF n <= 0 THEN "" ELSE " " \o Spaces(n - 1)

-----------------------------------------------------------------------------
(* Python values *)

PyNone == [t |-> "none"]
PyBool(b) == [t |-> "bool", v |-> b]
PyInt(n) == [t |-> "int", v |-> n]
PyFloat(r) == [t |-> "float", v |-> r]
PyStr(s) == [t |-> "str", v |-> s]
PyList(xs) == [t |-> "list", v |-> xs]
PyDict(items) == [t |-> "dict", v |-> items]

Item(key, val) == [k |-> key, v |-> val]

\* bool(x)
Truthy(x) ==
    CASE x.t = "none" -> FALSE
      [] x.t = "bool" -> x.v
      [] x.t = "int" -> x.v # 0
      [] x.t = "float" -> x.v \notin {"0.0", "-0.0"}
      [] x.t = "str" -> x.v # ""
      [] x.t \in {"list", "dict"} -> Len(x.v) > 0

HasKey(d, key) == \E i \in 1..Len(d.v) : d.v[i].k = key

Lookup(d, key) == d.v[CHOOSE i \in 1..Len(d.v) : d.v[i].k = key].v

\* d[key] = val: a key already present keeps its place
DictSet(d, key, val) ==
    IF HasKey(d, key)
    THEN PyDict([i \in 1..Len(d.v) |->
                    IF d.v[i].k = key THEN Item(key, val) ELSE d.v[i]])
    ELSE PyDict(Append(d.v, Item(key, val)))

\* outcomes of evaluating Python code
Value(x) == [kind |-> "value", v |-> x]
Raise(e) == [kind |-> "raise", exc |-> e]

-----------------------------------------------------------------------------
(* json.loads: the standard library's decoder, without exponent notation and *)
(* \u escapes, which the inputs below do not use                            *)

JsonWs == {" ", "\n", "\t", "\r"}

RECURSIVE SkipWs(_, _)
SkipWs(s, i) == IF i <= Len(s) /\ Char(s, i) \in JsonWs THEN SkipWs(s, i + 1) ELSE i

RECURSIVE ScanDigits(_, _)
ScanDigits(s, i) ==
    IF i <= Len(s) /\ Char(s, i) \in DigitChars THEN ScanDigits(s, i + 1) ELSE i

ParseFail == [ok |-> FALSE]
Parsed(x, p) == [ok |-> TRUE, v |-> x, pos |-> p]

Unescape(e) ==
    CASE e = "\"" -> "\"" [] e = "\\" -> "\\" [] e = "/" -> "/"
      [] e = "n" -> "\n" [] e = "t" -> "\t" [] e = "r" -> "\r"

\* py_scanstring, from the character after the opening quote
RECURSIVE ScanString(_, _, _)
ScanString(s, i, acc) ==
    IF i > Len(s) THEN ParseFail
    ELSE LET c == Char(s, i) IN
         IF c = "\"" THEN Parsed(acc, i + 1)
         ELSE IF c = "\\"
         THEN IF i + 1 <= Len(s) /\ Char(s, i + 1) \in {"\"", "\\", "/", "n", "t", "r"}
              THEN ScanString(s, i + 2, acc \o Unescape(Char(s, i + 1)))
              ELSE ParseFail
         ELSE IF c \in {"\n", "\t", "\r"} THEN ParseFail
         ELSE ScanString(s, i + 1, acc \o c)

\* NUMBER_RE: -?(0|[1-9][0-9]*)(\.[0-9]+)?
ParseNumber(s, i) ==
    LET neg == Char(s, i) = "-"
        j == IF neg THEN i + 1 ELSE i
        k == IF j <= Len(s) /\ Char(s, j) = "0" THEN j + 1 ELSE ScanDigits(s, j)
        m == ScanDigits(s, k + 1)
    IN IF k = j THEN ParseFail
       ELSE IF k <= Len(s) /\ Char(s, k) = "." /\ m > k + 1
       THEN Parsed(PyFloat(FloatRepr(neg, SubSeq(s, j, k - 1), SubSeq(s, k + 1, m - 1))), m)
       ELSE Parsed(PyInt((IF neg THEN -1 ELSE 1) * StrToNat(SubSeq(s, j, k - 1))), k)

RECURSIVE ParseValue(_, _), ParseElems(_, _, _), ParseMembers(_, _, _)

\* scan_once
ParseValue(s, i) ==
    IF i > Len(s) THEN ParseFail
    ELSE LET c == Char(s, i) IN
         IF c = "\""
         THEN LET r == ScanString(s, i + 1, "")
              IN IF r.ok THEN Parsed(PyStr(r.v), r.pos) ELSE ParseFail
         ELSE IF c = "{"
         THEN LET j == SkipWs(s, i + 1)
              IN IF j <= Len(s) /\ Char(s, j) = "}" THEN Parsed(PyDict(<<>>), j + 1)
                 ELSE ParseMembers(s, j, PyDict(<<>>))
         ELSE IF c = "["
         THEN LET j == SkipWs(s, i + 1)
              IN IF j <= Len(s) /\ Char(s, j) = "]" THEN Parsed(PyList(<<>>), j + 1)
                 ELSE ParseElems(s, j, <<>>)
         ELSE IF StartsAt(s, i, "null") THEN Parsed(PyNone, i + 4)
         ELSE IF StartsAt(s, i, "true") THEN Parsed(PyBool(TRUE), i + 4)
         ELSE IF StartsAt(s, i, "false") THEN Parsed(PyBool(FALSE), i + 5)
         ELSE IF StartsAt(s, i, "NaN") THEN Parsed(PyFloat("nan"), i + 3)
         ELSE IF StartsAt(s, i, "Infinity") THEN Parsed(PyFloat("inf"), i + 8)
         ELSE IF StartsAt(s, i, "-Infinity") THEN Parsed(PyFloat("-inf"), i + 9)
         ELSE ParseNumber(s, i)

\* JSONArray, at the first character of an element
ParseElems(s, i, acc) ==
    LET r == ParseValue(s, i) IN
    IF ~r.ok THEN ParseFail
    ELSE LET j == SkipWs(s, r.pos)
             xs == Append(acc, r.v)
         IN IF j > Len(s) THEN ParseFail
            ELSE IF Char(s, j) = "]" THEN Parsed(PyList(xs), j + 1)
            ELSE IF Char(s, j) = "," THEN ParseElems(s, SkipWs(s, j + 1), xs)
            ELSE ParseFail

\* JSONObject, at the opening quote of a key
ParseMembers(s, i, acc) ==
    IF i > Len(s) \/ Char(s, i) # "\"" THEN ParseFail
    ELSE LET key == ScanString(s, i + 1, "") IN
         IF ~key.ok THEN ParseFail
         ELSE LET c == SkipWs(s, key.pos) IN
              IF c > Len(s) \/ Char(s, c) # ":" THEN ParseFail
              ELSE LET r == ParseValue(s, SkipWs(s, c + 1)) IN
                   IF ~r.ok THEN ParseFail
                   ELSE LET j == SkipWs(s, r.pos)
                            d == DictSet(acc, PyStr(key.v), r.v)
                        IN IF j > Len(s) THEN ParseFail
                           ELSE IF Char(s, j) = "}" THEN Parsed(d, j + 1)
                           ELSE IF Char(s, j) = ","
                           THEN ParseMembers(s, SkipWs(s, j + 1), d)
                           ELSE ParseFail

\* json.loads(s) for a str s: a value, or JSONDecodeError
JsonLoads(s) ==
    LET r == ParseValue(s, SkipWs(s, 1)) IN
    IF r.ok /\ SkipWs(s, r.pos) = Len(s) + 1 THEN Value(r.v) ELSE Raise("JSONDecodeError")

-----------------------------------------------------------------------------
(* json.dumps(x, ensure_ascii=False) and json.dumps(x, indent=2, ...) *)

JsonEscapeChar(c) ==
    CASE c = "\"" -> "\\\""
      [] c = "\\" -> "\\\\"
      [] c = "\n" -> "\\n"
      [] c = "\t" -> "\\t"
      [] c = "\r" -> "\\r"
      [] OTHER -> c

RECURSIVE JsonEscape(_)
JsonEscape(s) ==
    IF Len(s) = 0 THEN ""
    ELSE JsonEscapeChar(Char(s, 1)) \o JsonEscape(SubSeq(s, 2, Len(s)))

JsonString(s) == "\"" \o JsonEscape(s) \o "\""

JsonFloat(r) ==
    CASE r = "nan" -> "NaN" [] r = "inf" -> "Infinity" [] r = "-inf" -> "-Infinity"
      [] OTHER -> r

\* a dict key as the encoder writes it
JsonKey(key) ==
    CASE key.t = "str" -> key.v
      [] key.t = "none" -> "null"
      [] key.t = "bool" -> IF key.v THEN "true" ELSE "false"
      [] key.t = "int" -> ToString(key.v)
      [] key.t = "float" -> JsonFloat(key.v)

\* indent < 0 stands for indent=None
RECURSIVE JsonEncode(_, _, _), JsonJoin(_, _, _, _, _)
JsonEncode(x, indent, level) ==
    CASE x.t = "none" -> "null"
      [] x.t = "bool" -> IF x.v THEN "true" ELSE "false"
      [] x.t = "int" -> ToString(x.v)
      [] x.t = "float" -> JsonFloat(x.v)
      [] x.t = "str" -> JsonString(x.v)
      [] x.t \in {"list", "dict"} ->
           LET open == IF x.t = "list" THEN "[" ELSE "{"
               close == IF x.t = "list" THEN "]" ELSE "}"
           IN IF Len(x.v) = 0 THEN open \o close
              ELSE IF indent < 0
              THEN open \o JsonJoin(x, 1, indent, level + 1, ", ") \o close
              ELSE open \o "\n" \o Spaces(indent * (level + 1))
                     \o JsonJoin(x, 1, indent, level + 1,
                                 "," \o "\n" \o Spaces(indent * (level + 1)))
                     \o "\n" \o Spaces(indent * level) \o close

\* the items of a list or dict from the i-th on, separated by sep
JsonJoin(x, i, indent, level, sep) ==
    LET one == IF x.t = "list" THEN JsonEncode(x.v[i], indent, level)
               ELSE JsonString(JsonKey(x.v[i].k)) \o ": "
                      \o JsonEncode(x.v[i].v, indent, level)
    IN IF i = Len(x.v) THEN one
       ELSE one \o sep \o JsonJoin(x, i + 1, indent, level, sep)

JsonDumps(x) == JsonEncode(x, -1, 0)

JsonDumpsIndent(x, indent) == JsonEncode(x, indent, 0)

-----------------------------------------------------------------------------
(* str(x) and repr(x) *)

ReprEscapeChar(c, quote) ==
    CASE c = quote -> "\\" \o quote
      [] c = "\\" -> "\\\\"
      [] c = "\n" -> "\\n"
      [] c = "\t" -> "\\t"
      [] c = "\r" -> "\\r"
      [] OTHER -> c

RECURSIVE ReprEscape(_, _)
ReprEscape(s, quote) ==
    IF Len(s) = 0 THEN ""
    ELSE ReprEscapeChar(Char(s, 1), quote) \o ReprEscape(SubSeq(s, 2, Len(s)), quote)

\* repr of a str: double quotes only when it holds ' and no "
ReprStr(s) ==
    LET quote == IF HasChar(s, "'") /\ ~HasChar(s, "\"") THEN "\"" ELSE "'"
    IN quote \o ReprEscape(s, quote) \o quote

RECURSIVE PyRepr(_), ReprJoin(_, _)
PyRepr(x) ==
    CASE x.t = "none" -> "None"
      [] x.t = "bool" -> IF x.v THEN "True" ELSE "False"
      [] x.t = "int" -> ToString(x.v)
      [] x.t = "float" -> x.v
      [] x.t = "str" -> ReprStr(x.v)
      [] x.t = "list" -> "[" \o (IF Len(x.v) = 0 THEN "" ELSE ReprJoin(x, 1)) \o "]"
      [] x.t = "dict" -> "{" \o (IF Len(x.v) = 0 THEN "" ELSE ReprJoin(x, 1)) \o "}"

ReprJoin(x, i) ==
    LET one == IF x.t = "list" THEN PyRepr(x.v[i])
               ELSE PyRepr(x.v[i].k) \o ": " \o PyRepr(x.v[i].v)
    IN IF i = Len(x.v) THEN one ELSE one \o ", " \o ReprJoin(x, i + 1)

\* str(x)
ToStr(x) == IF x.t = "str" THEN x.v ELSE PyRepr(x)

-----------------------------------------------------------------------------
(* Python operators on values, as the handlers use them *)

\* key in x, for a str key
PyIn(key, x) ==
    CASE x.t = "dict" -> Value(HasKey(x, PyStr(key)))
      [] x.t = "list" -> Value(\E i \in 1..Len(x.v) : x.v[i] = PyStr(key))
      [] x.t = "str" -> Value(Contains(x.v, key))
      [] OTHER -> Raise("TypeError")

\* len(x)
PyLen(x) ==
    IF x.t \in {"dict", "list", "str"} THEN Value(Len(x.v)) ELSE Raise("TypeError")

\* x[0]
PyFirst(x) ==
    CASE x.t = "list" -> IF Len(x.v) > 0 THEN Value(x.v[1]) ELSE Raise("IndexError")
      [] x.t = "str" -> IF Len(x.v) > 0 THEN Value(PyStr(Char(x.v, 1)))
                        ELSE Raise("IndexError")
      [] x.t = "dict" -> IF HasKey(x, PyInt(0)) THEN Value(Lookup(x, PyInt(0)))
                         ELSE Raise("KeyError")
      [] OTHER -> Raise("TypeError")

\* x[key], for a str key
PyGet(x, key) ==
    CASE x.t = "dict" -> IF HasKey(x, PyStr(key)) THEN Value(Lookup(x, PyStr(key)))
                         ELSE Raise("KeyError")
      [] OTHER -> Raise("TypeError")

-----------------------------------------------------------------------------
(* The file system convert_csv_to_json reads, and csv.DictReader *)

\* the pieces of s between the occurrences of the character c
RECURSIVE Split(_, _)
Split(s, c) ==
    IF ~HasChar(s, c) THEN <<s>>
    ELSE LET i == CHOOSE k \in 1..Len(s) :
                      Char(s, k) = c /\ \A j \in 1..(k - 1) : Char(s, j) # c
         IN <<SubSeq(s, 1, i - 1)>> \o Split(SubSeq(s, i + 1, Len(s)), c)

\* the lines StringIO(text) yields, without their line ends
Lines(text) ==
    LET parts == Split(text, "\n")
    IN IF parts[Len(parts)] = "" THEN SubSeq(parts, 1, Len(parts) - 1) ELSE parts

\* csv.reader on one line (no quoting in the inputs below): a blank line is []
CsvRow(line) == IF line = "" THEN <<>> ELSE Split(line, ",")

\* DictReader.__next__ for one non-blank row: zip with the header, then restkey
\* (None -> the list of surplus cells) or restval (None for each missing cell)
RECURSIVE ZipRow(_, _, _, _)
ZipRow(fieldnames, row, i, acc) ==
    IF i > Len(fieldnames)
    THEN IF Len(row) > Len(fieldnames)
         THEN DictSet(acc, PyNone,
                      PyList([j \in 1..(Len(row) - Len(fieldnames)) |->
                                 PyStr(row[Len(fieldnames) + j])]))
         ELSE acc
    ELSE ZipRow(fieldnames, row, i + 1,
                DictSet(acc, PyStr(fieldnames[i]),
                        IF i <= Len(row) THEN PyStr(row[i]) ELSE PyNone))

\* list(csv.DictReader(StringIO(csv_content))): the first line is the header,
\* blank lines after it are skipped
DictReader(csv_content) ==
    LET lines == Lines(csv_content)
        rows == [i \in 1..Len(lines) |-> CsvRow(lines[i])]
        data == SelectSeq(SubSeq(rows, 2, Len(rows)), LAMBDA r : r # <<>>)
    IN IF Len(rows) = 0 THEN <<>>
       ELSE [i \in 1..Len(data) |-> ZipRow(rows[1], data[i], 1, PyDict(<<>>))]

\* the files of the inputs: what a path names
File(kind, text) == [kind |-> kind, text |-> text]

\* the numeric coercion of one cell of a row (src/main.py:92-103)
Coerce(value) ==
    IF Truthy(value)
    THEN IF value.t # "str" THEN Raise("AttributeError")
         ELSE IF IsDigit(value.v)
         THEN IF IsDecimal(value.v) THEN Value(PyInt(StrToNat(value.v)))
              ELSE Raise("ValueError")
         ELSE IF IsDigit(RemoveFirst(value.v, ".")) /\ Count(value.v, ".") = 1
         THEN IF IsDecimal(RemoveFirst(value.v, "."))
              THEN LET dot == CHOOSE k \in 1..Len(value.v) : Char(value.v, k) = "."
                   IN Value(PyFloat(FloatRepr(FALSE, SubSeq(value.v, 1, dot - 1),
                                              SubSeq(value.v, dot + 1, Len(value.v)))))
              ELSE Value(value)
         ELSE Value(value)
    ELSE Value(value)

\* processed_row for one row of the reader: the first cell that raises ends it
RECURSIVE ProcessRow(_, _, _)
ProcessRow(row, i, acc) ==
    IF i > Len(row.v) THEN Value(acc)
    ELSE LET c == Coerce(row.v[i].v)
         IN IF c.kind = "raise" THEN c
            ELSE ProcessRow(row, i + 1, DictSet(acc, row.v[i].k, c.v))

RECURSIVE ProcessRows(_, _, _)
ProcessRows(rows, i, data) ==
    IF i > Len(rows) THEN Value(PyList(data))
    ELSE LET r == ProcessRow(rows[i], 1, PyDict(<<>>))
         IN IF r.kind = "raise" THEN r ELSE ProcessRows(rows, i + 1, Append(data, r.v))

ErrorList(msg) == Value(PyList(<<PyDict(<<Item(PyStr("error"), PyStr(msg))>>)>>))

\* mutant: without the last except clause, a decoding error leaves the tool
ConvertFileDecodeUncaught(file_path, file) ==
    CASE file.kind = "missing" -> ErrorList("File not found at path: " \o file_path)
      [] file.kind = "directory" -> ErrorList("Path is not a file: " \o file_path)
      [] file.kind = "vanished" -> ErrorList("File not found: " \o file_path)
      [] file.kind = "denied" -> ErrorList("Permission denied: " \o file_path)
      [] file.kind = "undecodable" -> Raise("UnicodeDecodeError")
      [] file.kind = "regular" -> ProcessRows(DictReader(file.text), 1, <<>>)

\* convert_csv_to_json(file_path), given the file the path names
ConvertFile(file_path, file) ==
    CASE file.kind = "missing" -> ErrorList("File not found at path: " \o file_path)
      [] file.kind = "directory" -> ErrorList("Path is not a file: " \o file_path)
      [] file.kind = "vanished" -> ErrorList("File not found: " \o file_path)
      [] file.kind = "denied" -> ErrorList("Permission denied: " \o file_path)
      [] file.kind = "undecodable" -> ErrorList("Error reading file: " \o file.text)
      [] file.kind = "regular" -> ProcessRows(DictReader(file.text), 1, <<>>)

-----------------------------------------------------------------------------
(* The relay tools *)

PromptTools ==
    {"call_grok_uncensored", "call_GPT_4_1", "call_GPT_o3", "call_grok_3",
     "call_gemini_exp", "call_deepseek_r1", "call_mcp_helper", "call_email_helper",
     "call_weekly_report_helper"}

RelayTools == {"process_and_send_csv"} \cup PromptTools

\* the module-level setting each tool's configuration check tests
CheckedSetting(tool) ==
    CASE tool = "process_and_send_csv" -> "DATASAUR_CSV_API_URL"
      [] tool = "call_grok_uncensored" -> "DATASAUR_GROK_UNCENSORED_API_URL"
      [] tool = "call_GPT_4_1" -> "DATASAUR_GPT41_API_URL"
      [] tool = "call_GPT_o3" -> "DATASAUR_GPT_O3_API_URL"
      [] tool = "call_grok_3" -> "DATASAUR_GROK_3_API_URL"
      [] tool = "call_gemini_exp" -> "DATASAUR_GEMINI_EXP_API_URL"
      [] tool = "call_deepseek_r1" -> "DATASAUR_DEEPSEEK_R1_API_URL"
      [] tool = "call_mcp_helper" -> "DATASAUR_MCP_HELPER_API_URL"
      [] tool = "call_email_helper" -> "DATASAUR_EMAIL_HELPER_API_URL"
      [] tool = "call_weekly_report_helper" -> "DATASAUR_WEEKLY_REPORT_HELPER_API_URL"

\* mutant: call_GPT_o3, copied from call_GPT_4_1, still posts to the GPT-4.1 URL
PostedSettingCopied(tool) ==
    IF tool = "call_GPT_o3" THEN "DATASAUR_GPT41_API_URL" ELSE CheckedSetting(tool)

\* the module-level setting each tool passes to client.post
PostedSetting(tool) ==
    CASE tool = "process_and_send_csv" -> "DATASAUR_CSV_API_URL"
      [] tool = "call_grok_uncensored" -> "DATASAUR_GROK_UNCENSORED_API_URL"
      [] tool = "call_GPT_4_1" -> "DATASAUR_GPT41_API_URL"
      [] tool = "call_GPT_o3" -> "DATASAUR_GPT_O3_API_URL"
      [] tool = "call_grok_3" -> "DATASAUR_GROK_3_API_URL"
      [] tool = "call_gemini_exp" -> "DATASAUR_GEMINI_EXP_API_URL"
      [] tool = "call_deepseek_r1" -> "DATASAUR_DEEPSEEK_R1_API_URL"
      [] tool = "call_mcp_helper" -> "DATASAUR_MCP_HELPER_API_URL"
      [] tool = "call_email_helper" -> "DATASAUR_EMAIL_HELPER_API_URL"
      [] tool = "call_weekly_report_helper" -> "DATASAUR_WEEKLY_REPORT_HELPER_API_URL"

\* the settings loaded at import (src/main.py:19-49)
Settings ==
    {"DATASAUR_API_KEY", "DATASAUR_CSV_API_URL", "DATASAUR_GROK_UNCENSORED_API_URL",
     "DATASAUR_GPT41_API_URL", "DATASAUR_GPT_O3_API_URL", "DATASAUR_GROK_3_API_URL",
     "DATASAUR_GEMINI_EXP_API_URL", "DATASAUR_DEEPSEEK_R1_API_URL",
     "DATASAUR_MCP_HELPER_API_URL", "DATASAUR_EMAIL_HELPER_API_URL",
     "DATASAUR_WEEKLY_REPORT_HELPER_API_URL"}

\* the name each tool's messages give its API
ApiName(tool) ==
    CASE tool = "process_and_send_csv" -> "CSV"
      [] tool = "call_grok_uncensored" -> "Grok"
      [] tool = "call_GPT_4_1" -> "GPT-4.1"
      [] tool = "call_GPT_o3" -> "GPT o3"
      [] tool = "call_grok_3" -> "Grok 3"
      [] tool = "call_gemini_exp" -> "Gemini Exp"
      [] tool = "call_deepseek_r1" -> "DeepSeek R1"
      [] tool = "call_mcp_helper" -> "MCP Helper"
      [] tool = "call_email_helper" -> "Email Helper"
      [] tool = "call_weekly_report_helper" -> "Weekly Report Helper"

\* httpx.AsyncClient(timeout=...), in seconds
Timeout(tool) ==
    CASE tool = "process_and_send_csv" -> 60
      [] tool = "call_grok_uncensored" -> 120
      [] OTHER -> 180

ConfigMissing(tool) ==
    "Error: Datasaur " \o ApiName(tool) \o " API configuration missing on server."

RequestFailed(msg) == "Error: API request failed: " \o msg

StatusFailed(status_code) ==
    "Error: API request failed with status " \o ToString(status_code)
      \o ". Check server logs."

UnexpectedError(tool) ==
    IF tool = "process_and_send_csv"
    THEN "Error: An unexpected error occurred during API request. Check server logs."
    ELSE "Error: An unexpected error occurred during " \o ApiName(tool)
           \o " API request. Check server logs."

MissingChoices(tool) ==
    "Error: Received unexpected response format from " \o ApiName(tool)
      \o " API (missing choices)."

MissingMessageContent(tool) ==
    "Error: Received unexpected response format from " \o ApiName(tool)
      \o " API (missing message content)."

CsvError(msg) == "Error processing CSV: " \o msg

-----------------------------------------------------------------------------
(* A handler runs to its first await of client.post, or to its end *)

Return(s) == [kind |-> "return", v |-> s]
Post(req) == [kind |-> "post", request |-> req]

\* mutant: the check written with "is None", which lets an empty string through
NotConfiguredIsNone(tool) ==
    globals[CheckedSetting(tool)] = PyNone \/ globals["DATASAUR_API_KEY"] = PyNone

\* the configuration check every tool makes before it builds its request
NotConfigured(tool) ==
    ~Truthy(globals[CheckedSetting(tool)]) \/ ~Truthy(globals["DATASAUR_API_KEY"])

\* the first argument of client.post
PostUrl(tool) == globals[PostedSetting(tool)]

\* headers and payload, and the call client.post(url, headers=headers, json=payload)
Request(tool, content) ==
    [method |-> "POST",
     url |-> PostUrl(tool),
     headers |-> PyDict(<<Item(PyStr("Authorization"),
                               PyStr("Bearer " \o ToStr(globals["DATASAUR_API_KEY"]))),
                          Item(PyStr("Content-Type"), PyStr("application/json"))>>),
     json |-> PyDict(<<Item(PyStr("messages"),
                            PyList(<<PyDict(<<Item(PyStr("role"), PyStr("user")),
                                              Item(PyStr("content"), PyStr(content))>>)
                                   >>))>>),
     timeout |-> Timeout(tool)]

\* call_*(prompt) up to the await
StartPrompt(tool, prompt) ==
    IF NotConfigured(tool) THEN Return(ConfigMissing(tool))
    ELSE Post(Request(tool, prompt))

\* isinstance(json_data, list) and len(json_data) > 0 and "error" in json_data[0]
ReportsError(json_data) ==
    json_data.t = "list" /\ Len(json_data.v) > 0 /\ HasKey(json_data.v[1], PyStr("error"))

\* mutant: the configuration check made first, as in the call_* tools
StartCsvCheckFirst(file_path, file) ==
    LET json_data == ConvertFile(file_path, file) IN
    IF NotConfigured("process_and_send_csv")
    THEN Return(ConfigMissing("process_and_send_csv"))
    ELSE IF json_data.kind = "raise" THEN json_data
    ELSE IF ReportsError(json_data.v)
    THEN Return(CsvError(ToStr(Lookup(json_data.v.v[1], PyStr("error")))))
    ELSE Post(Request("process_and_send_csv", JsonDumps(json_data.v)))

\* process_and_send_csv(file_path) up to the await, given the file the path names
StartCsv(file_path, file) ==
    LET json_data == ConvertFile(file_path, file) IN
    IF json_data.kind = "raise" THEN json_data
    ELSE IF ReportsError(json_data.v)
    THEN Return(CsvError(ToStr(Lookup(json_data.v.v[1], PyStr("error")))))
    ELSE IF NotConfigured("process_and_send_csv")
    THEN Return(ConfigMissing("process_and_send_csv"))
    ELSE Post(Request("process_and_send_csv", JsonDumps(json_data.v)))

-----------------------------------------------------------------------------
(* What client.post gives back, and the rest of the handler *)

Response(status_code, text) ==
    [kind |-> "response", status_code |-> status_code, text |-> text]

\* an httpx.RequestError raised by client.post (ConnectError, ReadTimeout, ...)
RequestError(exc, msg) == [kind |-> "error", exc |-> exc, msg |-> msg]

NoReply == [kind |-> "none"]

\* mutant: only 4xx and 5xx taken for errors
IsSuccessBelow400(status_code) == status_code < 400

\* httpx's Response.is_success, which raise_for_status tests
IsSuccess(status_code) == 200 <= status_code /\ status_code <= 299

\* the value of an expression continues into F; its exception propagates
Bind(r, F(_)) == IF r.kind = "raise" THEN r ELSE F(r.v)

\* mutant: the test without its len(...) > 0 half
ChoicesPresentKeyOnly(response_json) == PyIn("choices", response_json)

\* 'choices' in response_json and len(response_json['choices']) > 0
ChoicesPresent(response_json) ==
    Bind(PyIn("choices", response_json), LAMBDA has :
        IF ~has THEN Value(FALSE)
        ELSE Bind(PyGet(response_json, "choices"), LAMBDA choices :
                 Bind(PyLen(choices), LAMBDA n : Value(n > 0))))

\* mutant: response_json['choices'][-1]
LastChoice(response_json) ==
    Bind(PyGet(response_json, "choices"), LAMBDA choices :
        IF choices.t = "list" /\ Len(choices.v) > 0
        THEN Value(choices.v[Len(choices.v)])
        ELSE PyFirst(choices))

\* response_json['choices'][0]
FirstChoice(response_json) ==
    Bind(PyGet(response_json, "choices"), LAMBDA choices : PyFirst(choices))

\* 'message' in response_json['choices'][0]
\*     and 'content' in response_json['choices'][0]['message']
ContentPresent(response_json) ==
    Bind(FirstChoice(response_json), LAMBDA first :
        Bind(PyIn("message", first), LAMBDA has :
            IF ~has THEN Value(FALSE)
            ELSE Bind(PyGet(first, "message"), LAMBDA message :
                     PyIn("content", message))))

\* response_json['choices'][0]['message']['content']
MessageContent(response_json) ==
    Bind(FirstChoice(response_json), LAMBDA first :
        Bind(PyGet(first, "message"), LAMBDA message : PyGet(message, "content")))

\* mutant: the JSON re-interpretation of process_and_send_csv copied into call_*
PromptResultReparsed(content) ==
    IF content.t \in {"dict", "list"} THEN Return(JsonDumpsIndent(content, 2))
    ELSE IF content.t # "str" THEN Return(ToStr(content))
    ELSE LET content_json == JsonLoads(content.v)
         IN IF content_json.kind = "raise" THEN Return(ToStr(content))
            ELSE Return(JsonDumpsIndent(content_json.v, 2))

\* call_*: return str(content)
PromptResult(content) == Return(ToStr(content))

\* mutant: without the isinstance test, json.loads raises TypeError on a dict
\* or list and the except clause returns str(content)
CsvResultWithoutIsinstance(content) ==
    IF content.t # "str" THEN Return(ToStr(content))
    ELSE LET content_json == JsonLoads(content.v)
         IN IF content_json.kind = "raise" THEN Return(ToStr(content))
            ELSE Return(JsonDumpsIndent(content_json.v, 2))

\* process_and_send_csv: the try block around json.dumps and json.loads
CsvResult(content) ==
    IF content.t \in {"dict", "list"} THEN Return(JsonDumpsIndent(content, 2))
    ELSE IF content.t # "str" THEN Return(ToStr(content))
    ELSE LET content_json == JsonLoads(content.v)
         IN IF content_json.kind = "raise" THEN Return(ToStr(content))
            ELSE Return(JsonDumpsIndent(content_json.v, 2))

\* the response processing after the try block
ProcessResponse(tool, response_json) ==
    Bind(ChoicesPresent(response_json), LAMBDA choices :
        IF ~choices THEN Return(MissingChoices(tool))
        ELSE Bind(ContentPresent(response_json), LAMBDA present :
                 IF ~present THEN Return(MissingMessageContent(tool))
                 ELSE Bind(MessageContent(response_json), LAMBDA content :
                          IF tool = "process_and_send_csv" THEN CsvResult(content)
                          ELSE PromptResult(content))))

\* mutant: response.json() called before response.raise_for_status()
ResumeParseFirst(tool, reply) ==
    IF reply.kind = "error" THEN Return(RequestFailed(reply.msg))
    ELSE LET response_json == JsonLoads(reply.text)
         IN IF response_json.kind = "raise" THEN Return(UnexpectedError(tool))
            ELSE IF ~IsSuccess(reply.status_code)
            THEN Return(StatusFailed(reply.status_code))
            ELSE ProcessResponse(tool, response_json.v)

\* the handler from the await on: the try block and its except clauses, then
\* the response processing
Resume(tool, reply) ==
    IF reply.kind = "error" THEN Return(RequestFailed(reply.msg))
    ELSE IF ~IsSuccess(reply.status_code) THEN Return(StatusFailed(reply.status_code))
    ELSE LET response_json == JsonLoads(reply.text)
         IN IF response_json.kind = "raise" THEN Return(UnexpectedError(tool))
            ELSE ProcessResponse(tool, response_json.v)

-----------------------------------------------------------------------------
(* Inputs *)

\* the value a setting has when the environment gives it properly
Configured(setting) ==
    IF setting = "DATASAUR_API_KEY" THEN PyStr("sk-datasaur")
    ELSE PyStr("https://datasaur.example/" \o setting)

AllConfigured == [setting \in Settings |-> Configured(setting)]

\* os.getenv gives None for an unset variable and '' for an empty one: every
\* setting configured, one setting unset or empty, or nothing set at all
Configurations ==
    {AllConfigured, [setting \in Settings |-> PyNone]}
      \cup {[AllConfigured EXCEPT ![setting] = x] :
               setting \in Settings, x \in {PyNone, PyStr("")}}

CoreConfigurations ==
    {AllConfigured,
     [AllConfigured EXCEPT !["DATASAUR_API_KEY"] = PyNone],
     [AllConfigured EXCEPT !["DATASAUR_GROK_UNCENSORED_API_URL"] = PyStr("")]}

Prompts == {"hello", "", "{\"a\": 1}\nsay 'hi'"}

CorePrompts == {"hello"}

CoreTools == {"process_and_send_csv", "call_grok_uncensored", "call_GPT_4_1"}

\* what each path names
Files ==
    [missing |-> File("missing", ""),
     reports |-> File("directory", ""),
     gone |-> File("vanished", ""),
     locked |-> File("denied", ""),
     binary |-> File("undecodable",
                     "'utf-8' codec can't decode byte 0xff in position 0: invalid start byte"),
     ab |-> File("regular", "a,b\n1,2.5\nfoo,\n"),
     empty |-> File("regular", ""),
     header |-> File("regular", "name,qty\n"),
     short |-> File("regular", "a,b\n1\n"),
     long |-> File("regular", "a,b\n1,2,3\n"),
     error |-> File("regular", "error,b\nboom,2\n"),
     code |-> File("regular", "id,error\n7,404\n8,\n"),
     mixed |-> File("regular", "x,y\n007,3.14.15\n\n12a,-5\n.5,5.\n")]

Paths == DOMAIN Files

\* the texts of single cells: empty, integers, floats, and what is neither
CellTexts ==
    <<"", "42", "007", "3.14", ".5", "5.", "3.14.15", "12a", "-5", "+7", "1e5",
      "1_000", "1 000", "²", "1.²">>

\* a file of one data row with two cells, for every pair of cell texts
CellPath(i, j) == "cells/" \o ToString(i) \o "_" \o ToString(j) \o ".csv"

CellFile(i, j) == File("regular", "x,y\n" \o CellTexts[i] \o "," \o CellTexts[j] \o "\n")

CellIndex == (1..Len(CellTexts)) \X (1..Len(CellTexts))

CellPaths == {CellPath(ij[1], ij[2]) : ij \in CellIndex}

\* the file a path names
FileAt(file_path) ==
    IF file_path \in Paths THEN Files[file_path]
    ELSE LET ij == CHOOSE ij \in CellIndex : CellPath(ij[1], ij[2]) = file_path
         IN CellFile(ij[1], ij[2])

\* TRANSPORT in the environment of the process: unset, or set to a string
Transports == {PyNone, PyStr("stdio"), PyStr("sse"), PyStr(""), PyStr("STDIO")}

CoreTransports == {PyNone, PyStr("stdio"), PyStr("sse")}

CorePaths == {"ab", "missing"}

\* response bodies: the expected envelope with several contents, and every
\* way of departing from it
Bodies ==
    {"{\"choices\":[{\"message\":{\"content\":\"hello\"}}]}",
     "{\"choices\":[{\"message\":{\"content\":\"\"}}]}",
     "{\"choices\":[{\"message\":{\"content\":\"{\\\"a\\\":1}\"}}]}",
     "{\"choices\":[{\"message\":{\"content\":\"[1, 2.50, \\\"x\\\"]\"}}]}",
     "{\"choices\":[{\"message\":{\"content\":\" 42 \"}}]}",
     "{\"choices\":[{\"message\":{\"content\":\"{\\\"a\\\":1,}\"}}]}",
     "{\"choices\":[{\"message\":{\"content\":\"it's \\\"fine\\\"\\n\"}}]}",
     "{\"choices\":[{\"message\":{\"content\":{\"a\":[1,\"x\"],\"b\":{}}}}]}",
     "{\"choices\":[{\"message\":{\"content\":[{\"a\":1},[]]}}]}",
     "{\"choices\":[{\"message\":{\"content\":5}}]}",
     "{\"choices\":[{\"message\":{\"content\":1.5}}]}",
     "{\"choices\":[{\"message\":{\"content\":null}}]}",
     "{\"choices\":[{\"message\":{\"content\":true}}]}",
     "{\"id\":\"r1\",\"choices\":[{\"index\":0,\"message\":{\"role\":\"assistant\",\"content\":\"hello\"}}]}",
     "{\"choices\":[{\"message\":{\"content\":\"first\"}},{\"message\":{\"content\":\"second\"}}]}",
     "{\"choices\":[{\"message\":{\"content\":\"first\"}},{\"text\":\"x\"}]}",
     "{\"choices\":[{\"message\":{\"content\":\"first\"}},5]}",
     "{\"choices\":[{\"text\":\"x\"},{\"message\":{\"content\":\"second\"}}]}",
     "{\"choices\":[{\"message\":{\"role\":\"assistant\"}},{\"message\":{\"content\":\"second\"}}]}",
     "{}",
     "{\"error\":\"overloaded\"}",
     "{\"choices\":[]}",
     "{\"choices\":[],\"message\":{\"content\":\"hello\"}}",
     "{\"choices\":null}",
     "{\"choices\":5}",
     "{\"choices\":\"\"}",
     "{\"choices\":\"abc\"}",
     "{\"choices\":{}}",
     "{\"choices\":{\"0\":{\"message\":{\"content\":\"hello\"}}}}",
     "{\"choices\":[5]}",
     "{\"choices\":[null]}",
     "{\"choices\":[\"message\"]}",
     "{\"choices\":[[]]}",
     "{\"choices\":[[\"message\"]]}",
     "{\"choices\":[{}]}",
     "{\"choices\":[{\"message\":5}]}",
     "{\"choices\":[{\"message\":null}]}",
     "{\"choices\":[{\"message\":\"content\"}]}",
     "{\"choices\":[{\"message\":\"text\"}]}",
     "{\"choices\":[{\"message\":[\"content\"]}]}",
     "{\"choices\":[{\"message\":[]}]}",
     "{\"choices\":[{\"message\":{}}]}",
     "",
     "<html>Bad Gateway</html>",
     "{\"choices\":[{\"message\":",
     "5",
     "null",
     "true",
     "[]",
     "[\"choices\"]",
     "\"choices\"",
     "\"abc\""}

CoreBodies ==
    {"{\"choices\":[{\"message\":{\"content\":\"hello\"}}]}",
     "{\"choices\":[{\"message\":{\"content\":\"{\\\"a\\\":1}\"}}]}",
     "{}",
     "<html>Bad Gateway</html>"}

SuccessStatuses == {200, 201}

FailureStatuses == {302, 404, 500, 503}

\* what client.post can give back to a tool that awaits it
Replies ==
    {Response(200, text) : text \in Bodies}
      \cup {Response(status_code, text) :
               status_code \in (SuccessStatuses \cup FailureStatuses) \ {200},
               text \in CoreBodies}
      \cup {RequestError("ConnectError", "All connection attempts failed"),
            RequestError("ReadTimeout", ""),
            RequestError("ConnectTimeout", "")}

CoreReplies ==
    {Response(200, text) : text \in CoreBodies}
      \cup {Response(500, "<html>Bad Gateway</html>"),
            RequestError("ConnectError", "All connection attempts failed"),
            RequestError("ReadTimeout", "")}

\* the number of invocations the hosting runtime has in flight or finished
MaxCalls == 2

-----------------------------------------------------------------------------
(* The state machine *)

Pending == [kind |-> "pending"]

\* the requests invocation i has made
PostsOf(i) == {k \in 1..Len(posts) : posts[k].call = i}

\* a new invocation, run to its first await or to its end
Invocation(tool, arg, step) ==
    [tool |-> tool, arg |-> arg,
     pc |-> IF step.kind = "post" THEN "awaiting" ELSE "resolved",
     reply |-> NoReply,
     outcome |-> IF step.kind = "post" THEN Pending ELSE step]

\* mutant: a result kept per tool and argument, given again without a request
BeginMemoized(tool, arg, step) ==
    IF \E j \in 1..Len(calls) :
           calls[j].tool = tool /\ calls[j].arg = arg /\ calls[j].reply.kind # "none"
    THEN LET j == CHOOSE j \in 1..Len(calls) :
                      calls[j].tool = tool /\ calls[j].arg = arg
                        /\ calls[j].reply.kind # "none"
         IN /\ calls' = Append(calls, [tool |-> tool, arg |-> arg, pc |-> "resolved",
                                       reply |-> NoReply, outcome |-> calls[j].outcome])
            /\ UNCHANGED <<globals, posts, process>>
    ELSE /\ calls' = Append(calls, Invocation(tool, arg, step))
         /\ posts' = IF step.kind = "post"
                     THEN Append(posts, [call |-> Len(calls) + 1, request |-> step.request])
                     ELSE posts
         /\ UNCHANGED <<globals, process>>

\* the call of a handler: it runs to its first await of client.post, or to its end
Begin(tool, arg, step) ==
    /\ calls' = Append(calls, Invocation(tool, arg, step))
    /\ posts' = IF step.kind = "post"
                THEN Append(posts, [call |-> Len(calls) + 1, request |-> step.request])
                ELSE posts
    /\ UNCHANGED <<globals, process>>

\* mcp.run(transport='stdio') is serving the tools
Serving == process.pc = "serving"

\* the hosting runtime calls a call_* tool
InvokePrompt(tool, prompt) ==
    Serving /\ Begin(tool, prompt, StartPrompt(tool, prompt))

\* the hosting runtime calls process_and_send_csv
InvokeCsv(file_path) ==
    /\ Serving
    /\ Begin("process_and_send_csv", file_path, StartCsv(file_path, Files[file_path]))

\* the hosting runtime calls convert_csv_to_json: it has no await, and ends
\* with the list it returns or the exception it raises
InvokeConvert(file_path) ==
    /\ Serving
    /\ Begin("convert_csv_to_json", file_path, ConvertFile(file_path, FileAt(file_path)))

\* mutant: after a request error the handler takes the key for invalid and
\* clears the module-level setting
DeliverClearingKey(i, reply) ==
    /\ calls[i].pc = "awaiting"
    /\ calls' = [calls EXCEPT ![i].pc = "resolved",
                              ![i].reply = reply,
                              ![i].outcome = Resume(calls[i].tool, reply)]
    /\ globals' = IF reply.kind = "error"
                  THEN [globals EXCEPT !["DATASAUR_API_KEY"] = PyNone]
                  ELSE globals
    /\ UNCHANGED <<posts, process>>

\* client.post returns a response, or raises a request error, to invocation i
Deliver(i, reply) ==
    /\ calls[i].pc = "awaiting"
    /\ calls' = [calls EXCEPT ![i].pc = "resolved",
                              ![i].reply = reply,
                              ![i].outcome = Resume(calls[i].tool, reply)]
    /\ UNCHANGED <<globals, posts, process>>

Respond(i, reply) == reply.kind = "response" /\ Deliver(i, reply)

Fail(i, reply) == reply.kind = "error" /\ Deliver(i, reply)

\* os.getenv(name, default)
Getenv(value, default) == IF value = PyNone THEN default ELSE value

\* the process at the start of the __main__ block, after the import-time part
Started(TRANSPORT) == [pc |-> "main", TRANSPORT |-> TRANSPORT, exit_status |-> PyNone]

\* the process in mcp.run(transport='stdio'), TRANSPORT unset
DefaultServing == [pc |-> "serving", TRANSPORT |-> PyNone, exit_status |-> PyNone]

\* mutant: every transport selection is served
MainAnyTransport ==
    /\ process.pc = "main"
    /\ process' = [process EXCEPT !.pc = "serving"]
    /\ UNCHANGED <<globals, calls, posts>>

\* mutant: the commented-out startup check of the API key and the URLs, active
MainWithStartupCheck ==
    /\ process.pc = "main"
    /\ process' =
           IF \E setting \in Settings : ~Truthy(globals[setting])
           THEN [process EXCEPT !.pc = "exited", !.exit_status = PyInt(1)]
           ELSE IF Getenv(process.TRANSPORT, PyStr("stdio")) = PyStr("stdio")
           THEN [process EXCEPT !.pc = "serving"]
           ELSE [process EXCEPT !.pc = "exited", !.exit_status = PyInt(1)]
    /\ UNCHANGED <<globals, calls, posts>>

\* the __main__ block: the transport selection, then mcp.run or sys.exit(1)
Main ==
    /\ process.pc = "main"
    /\ LET transport_type == Getenv(process.TRANSPORT, PyStr("stdio"))
       IN process' = IF transport_type = PyStr("stdio")
                     THEN [process EXCEPT !.pc = "serving"]
                     ELSE [process EXCEPT !.pc = "exited", !.exit_status = PyInt(1)]
    /\ UNCHANGED <<globals, calls, posts>>

\* after import: the settings are whatever the environment gave, and __main__
\* has its transport selection to make
Init ==
    /\ globals \in CoreConfigurations
    /\ calls = <<>>
    /\ posts = <<>>
    /\ process \in {Started(TRANSPORT) : TRANSPORT \in CoreTransports}

\* up to MaxCalls invocations, interleaved at their awaits
Next ==
    \/ Main
    \/ /\ Len(calls) < MaxCalls
       /\ \E tool \in CoreTools \cap PromptTools, prompt \in CorePrompts :
              InvokePrompt(tool, prompt)
    \/ /\ Len(calls) < MaxCalls
       /\ \E file_path \in CorePaths : InvokeCsv(file_path)
    \/ \E i \in 1..Len(calls), reply \in CoreReplies : Respond(i, reply)
    \/ \E i \in 1..Len(calls), reply \in CoreReplies : Fail(i, reply)

Spec == Init /\ [][Next]_vars

\* the server serving on stdio, with every configuration
InitWide ==
    /\ globals \in Configurations
    /\ calls = <<>>
    /\ posts = <<>>
    /\ process = DefaultServing

\* one invocation of any tool, with every input and every reply
NextWide ==
    \/ /\ Len(calls) < 1
       /\ \E tool \in PromptTools, prompt \in Prompts : InvokePrompt(tool, prompt)
    \/ /\ Len(calls) < 1
       /\ \E file_path \in Paths : InvokeCsv(file_path)
    \/ \E i \in 1..Len(calls), reply \in Replies : Respond(i, reply)
    \/ \E i \in 1..Len(calls), reply \in Replies : Fail(i, reply)

SpecWide == InitWide /\ [][NextWide]_vars

\* the server serving on stdio, with the core configurations
InitServing ==
    /\ globals \in CoreConfigurations
    /\ calls = <<>>
    /\ posts = <<>>
    /\ process = DefaultServing

\* one invocation of convert_csv_to_json, on every file
NextCsv ==
    /\ Len(calls) < 1
    /\ \E file_path \in Paths \cup CellPaths : InvokeConvert(file_path)

SpecCsv == InitServing /\ [][NextCsv]_vars

\* the replies of the liveness specification: the core ones, and a 2xx body
\* that is JSON of another shape than the envelope
LiveReplies == CoreReplies \cup {Response(200, "{\"choices\":null}")}

\* up to MaxCalls invocations, interleaved at their awaits
NextLive ==
    \/ /\ Len(calls) < MaxCalls
       /\ \E tool \in CoreTools \cap PromptTools, prompt \in CorePrompts :
              InvokePrompt(tool, prompt)
    \/ /\ Len(calls) < MaxCalls
       /\ \E file_path \in CorePaths : InvokeCsv(file_path)
    \/ \E i \in 1..Len(calls), reply \in LiveReplies : Respond(i, reply)
    \/ \E i \in 1..Len(calls), reply \in LiveReplies : Fail(i, reply)

\* client.post of invocation i completes, one way or the other
Completes(i) == i <= Len(calls) /\ \E reply \in LiveReplies : Deliver(i, reply)

\* httpx.AsyncClient(timeout=...) bounds every phase of the request: an awaited
\* client.post returns a response or raises a request error in the end
SpecLive ==
    InitServing /\ [][NextLive]_vars /\ \A i \in 1..MaxCalls : WF_vars(Completes(i))

InitStartup ==
    /\ globals \in Configurations
    /\ calls = <<>>
    /\ posts = <<>>
    /\ process \in {Started(TRANSPORT) : TRANSPORT \in Transports}

\* the start of the process with every configuration and transport selection,
\* then one invocation of any relay tool
NextStartup ==
    \/ Main
    \/ /\ Len(calls) < 1
       /\ \E tool \in PromptTools, prompt \in CorePrompts : InvokePrompt(tool, prompt)
    \/ /\ Len(calls) < 1
       /\ \E file_path \in CorePaths : InvokeCsv(file_path)
    \/ \E i \in 1..Len(calls), reply \in CoreReplies : Respond(i, reply)
    \/ \E i \in 1..Len(calls), reply \in CoreReplies : Fail(i, reply)

SpecStartup == InitStartup /\ [][NextStartup]_vars

-----------------------------------------------------------------------------
(* Properties *)

Calls == 1..Len(calls)

Resolved(i) == calls[i].pc = "resolved"

\* os.getenv gave None or ''
Unset(setting) == globals[setting] = PyNone \/ globals[setting] = PyStr("")

Misconfigured(tool) == Unset(CheckedSetting(tool)) \/ Unset("DATASAUR_API_KEY")

\* invocation i got a response with a 2xx status
GotSuccess(i) ==
    /\ Resolved(i)
    /\ calls[i].reply.kind = "response"
    /\ calls[i].reply.status_code \in 200..299

\* convert_csv_to_json returned a list that process_and_send_csv does not take
\* for a conversion error
Converts(file_path) ==
    LET json_data == ConvertFile(file_path, Files[file_path])
    IN json_data.kind = "value" /\ ~ReportsError(json_data.v)

\* invocation i came to its configuration check
ReachedCheck(i) == calls[i].tool \in PromptTools \/ Converts(calls[i].arg)

\* C1: every relay tool returns a string and lets no exception out, whatever
\* the configuration, the transport outcome, the status and the response body
\* (stated for the invocations that came to the configuration check: the
\* conversion step of process_and_send_csv has claims of its own).
\* The response processing is outside the try block, so a 2xx body that is
\* JSON of another shape than the envelope raises TypeError, KeyError or
\* IndexError: TLC finds this violated.
C1_AlwaysReturnsString ==
    \A i \in Calls :
        (Resolved(i) /\ ReachedCheck(i)) => calls[i].outcome.kind = "return"

C3_StatusErrorIgnoresBody ==
    \A i \in Calls :
        (/\ Resolved(i)
         /\ calls[i].reply.kind = "response"
         /\ calls[i].reply.status_code \notin 200..299) =>
            /\ calls[i].outcome.kind = "return"
            /\ calls[i].outcome.v = "Error: API request failed with status "
                                      \o ToString(calls[i].reply.status_code)
                                      \o ". Check server logs."
            /\ Contains(calls[i].outcome.v, ToString(calls[i].reply.status_code))

\* C3 witness: a 500 whose body is a well-formed envelope
C3_Witness ==
    \E i \in Calls :
        /\ Resolved(i)
        /\ calls[i].reply = Response(500, "{\"choices\":[{\"message\":{\"content\":\"hello\"}}]}")
        /\ calls[i].outcome = Return("Error: API request failed with status 500. Check server logs.")

\* the parsed body of the response invocation i got
Body(i) == JsonLoads(calls[i].reply.text)

IsDict(x) == x.t = "dict"
IsList(x) == x.t = "list"
Has(d, key) == HasKey(d, PyStr(key))
Get(d, key) == Lookup(d, PyStr(key))

\* the body is an object whose 'choices' is a non-empty array
HasChoiceArray(i) ==
    /\ Body(i).kind = "value"
    /\ IsDict(Body(i).v)
    /\ Has(Body(i).v, "choices")
    /\ IsList(Get(Body(i).v, "choices"))
    /\ Len(Get(Body(i).v, "choices").v) > 0

Choice0(i) == Get(Body(i).v, "choices").v[1]

\* choices[0] is an object with an object 'message' that has 'content'
HasContent(i) ==
    /\ HasChoiceArray(i)
    /\ IsDict(Choice0(i))
    /\ Has(Choice0(i), "message")
    /\ IsDict(Get(Choice0(i), "message"))
    /\ Has(Get(Choice0(i), "message"), "content")

Content(i) == Get(Get(Choice0(i), "message"), "content")

\* C4: a 2xx response whose JSON object has no 'choices' key, or an empty
\* 'choices' array, gives the tool's "missing choices" error string.
C4_MissingChoices ==
    \A i \in Calls :
        (/\ GotSuccess(i)
         /\ Body(i).kind = "value"
         /\ IsDict(Body(i).v)
         /\ \/ ~Has(Body(i).v, "choices")
            \/ /\ IsList(Get(Body(i).v, "choices"))
               /\ Len(Get(Body(i).v, "choices").v) = 0) =>
            /\ calls[i].outcome.kind = "return"
            /\ calls[i].outcome.v = "Error: Received unexpected response format from "
                                      \o ApiName(calls[i].tool) \o " API (missing choices)."
            /\ Contains(calls[i].outcome.v, "missing choices")

\* C4 witness: an empty 'choices' array beside a usable message
C4_Witness ==
    \E i \in Calls :
        /\ GotSuccess(i)
        /\ calls[i].reply.text = "{\"choices\":[],\"message\":{\"content\":\"hello\"}}"
        /\ calls[i].tool = "call_deepseek_r1"
        /\ calls[i].outcome = Return("Error: Received unexpected response format from DeepSeek R1 API (missing choices).")

\* the body of invocation i with only the first of its choices
FirstChoiceOnly(i) ==
    JsonDumps(DictSet(Body(i).v, PyStr("choices"), PyList(<<Choice0(i)>>)))

\* C5: a 2xx response with a non-empty 'choices' array whose first element has
\* no 'message', or whose 'message' has no 'content', gives the tool's "missing
\* message content" error string; and whatever choices[0] is, the result is the
\* one the same response gives with the later choices removed.
C5_MissingMessageContent ==
    \A i \in Calls :
        (GotSuccess(i) /\ HasChoiceArray(i)) =>
            /\ (/\ IsDict(Choice0(i))
                /\ \/ ~Has(Choice0(i), "message")
                   \/ /\ IsDict(Get(Choice0(i), "message"))
                      /\ ~Has(Get(Choice0(i), "message"), "content")) =>
                   /\ calls[i].outcome.kind = "return"
                   /\ calls[i].outcome.v =
                          "Error: Received unexpected response format from "
                            \o ApiName(calls[i].tool) \o " API (missing message content)."
                   /\ Contains(calls[i].outcome.v, "missing message content")
            /\ calls[i].outcome =
                   Resume(calls[i].tool,
                          Response(calls[i].reply.status_code, FirstChoiceOnly(i)))

\* C5 witness: the first choice has no message, the second has a usable one
C5_Witness ==
    \E i \in Calls :
        /\ GotSuccess(i)
        /\ calls[i].reply.text =
               "{\"choices\":[{\"text\":\"x\"},{\"message\":{\"content\":\"second\"}}]}"
        /\ calls[i].tool = "process_and_send_csv"
        /\ calls[i].outcome = Return("Error: Received unexpected response format from CSV API (missing message content).")

\* C6: a call_* tool returns a string content exactly as it is, also when the
\* content is itself JSON text.
C6_PromptContentVerbatim ==
    \A i \in Calls :
        (/\ GotSuccess(i)
         /\ calls[i].tool \in PromptTools
         /\ HasContent(i)
         /\ Content(i).t = "str") =>
            calls[i].outcome = Return(Content(i).v)

\* C6 witness: content that is JSON text comes back unchanged
C6_Witness ==
    \E i \in Calls :
        /\ GotSuccess(i)
        /\ calls[i].tool = "call_GPT_4_1"
        /\ calls[i].reply.text = "{\"choices\":[{\"message\":{\"content\":\"{\\\"a\\\":1}\"}}]}"
        /\ calls[i].outcome = Return("{\"a\":1}")

\* C7: process_and_send_csv returns an object or array content as indented
\* JSON, a string content that parses as JSON as the indented JSON of the parsed
\* value, and a string content that does not parse unchanged.
C7_CsvContentPrettyPrinted ==
    \A i \in Calls :
        (/\ GotSuccess(i)
         /\ calls[i].tool = "process_and_send_csv"
         /\ HasContent(i)) =>
            /\ Content(i).t \in {"dict", "list"} =>
                   calls[i].outcome = Return(JsonDumpsIndent(Content(i), 2))
            /\ (Content(i).t = "str" /\ JsonLoads(Content(i).v).kind = "value") =>
                   calls[i].outcome = Return(JsonDumpsIndent(JsonLoads(Content(i).v).v, 2))
            /\ (Content(i).t = "str" /\ JsonLoads(Content(i).v).kind = "raise") =>
                   calls[i].outcome = Return(Content(i).v)
            /\ Content(i) = PyStr("{\"a\":1}") =>
                   calls[i].outcome = Return("{\n  \"a\": 1\n}")
            /\ Content(i) = PyStr("{\"a\":1,}") =>
                   calls[i].outcome = Return("{\"a\":1,}")
            /\ calls[i].reply.text =
                   "{\"choices\":[{\"message\":{\"content\":{\"a\":[1,\"x\"],\"b\":{}}}}]}" =>
                   calls[i].outcome =
                       Return("{\n  \"a\": [\n    1,\n    \"x\"\n  ],\n  \"b\": {}\n}")

\* C7 witness: the three kinds of content
C7_Witness ==
    \E i \in Calls :
        /\ GotSuccess(i)
        /\ calls[i].tool = "process_and_send_csv"
        /\ HasContent(i)
        /\ Content(i) = PyStr("[1, 2.50, \"x\"]")
        /\ calls[i].outcome = Return("[\n  1,\n  2.5,\n  \"x\"\n]")

\* invocation i got no usable reply: a request error (a timeout, a connection
\* failure), a non-2xx status, or a 2xx body that is not the envelope (not
\* JSON, or JSON without choices[0].message.content)
FailureReply(i) ==
    /\ Resolved(i)
    /\ \/ calls[i].reply.kind = "error"
       \/ /\ calls[i].reply.kind = "response"
          /\ \/ calls[i].reply.status_code \notin 200..299
             \/ ~HasContent(i)

\* C8: an invocation posts at most once; one that got any outcome from
\* client.post has posted exactly once and posts no more, and after a request
\* error, a non-2xx status or a malformed response it has resolved with an
\* error string.
\* The requests are as claimed, one per invocation and none after the reply;
\* but a 2xx body that is JSON of another shape than the envelope (C1) ends
\* the invocation with an exception instead of an error string: TLC finds
\* this violated.
C8_AtMostOnePost ==
    \A i \in Calls :
        /\ Cardinality(PostsOf(i)) <= 1
        /\ calls[i].pc = "awaiting" => Cardinality(PostsOf(i)) = 1
        /\ calls[i].reply.kind # "none" => (Resolved(i) /\ Cardinality(PostsOf(i)) = 1)
        /\ FailureReply(i) =>
               /\ calls[i].outcome.kind = "return"
               /\ StartsAt(calls[i].outcome.v, 1, "Error: ")

\* C8 witness: a timeout, resolved with the error string after the one request
\* the invocation made
C8_Witness ==
    \E i \in Calls :
        /\ calls[i].reply = RequestError("ReadTimeout", "")
        /\ calls[i].outcome = Return("Error: API request failed: ")
        /\ Cardinality(PostsOf(i)) = 1
        /\ Len(posts) = 1

\* invocation i came to its configuration check and passed it
PassedCheck(i) == ReachedCheck(i) /\ ~Misconfigured(calls[i].tool)

\* C9: the invocations that passed the configuration check have made one
\* request each and no other request was made, identical payloads included;
\* the result of a resolved invocation is the one its own reply gives.
C9_NoCaching ==
    /\ Len(posts) = Cardinality({i \in Calls : PassedCheck(i)})
    /\ \A i \in Calls : PassedCheck(i) <=> Cardinality(PostsOf(i)) = 1
    /\ \A i \in Calls :
           (Resolved(i) /\ calls[i].reply.kind # "none") =>
               /\ calls[i].outcome = Resume(calls[i].tool, calls[i].reply)
               /\ (/\ calls[i].tool \in PromptTools
                   /\ calls[i].reply =
                          Response(200, "{\"choices\":[{\"message\":{\"content\":\"hello\"}}]}")) =>
                      calls[i].outcome = Return("hello")

\* C9 witness: the same prompt sent twice to the same tool, two requests, and
\* each invocation with the result of its own reply
C9_Witness ==
    /\ Len(calls) >= 2
    /\ calls[1].tool = "call_grok_uncensored"
    /\ calls[2].tool = "call_grok_uncensored"
    /\ calls[1].arg = calls[2].arg
    /\ Len(posts) = 2
    /\ posts[1].request = posts[2].request
    /\ calls[1].outcome = Return("Error: API request failed with status 500. Check server logs.")
    /\ calls[2].outcome = Return("hello")

\* the string the tool of invocation i has to put in its one message
Payload(i) ==
    IF calls[i].tool \in PromptTools THEN calls[i].arg
    ELSE JsonDumps(ConvertFile(calls[i].arg, Files[calls[i].arg]).v)

\* C10: every request is a POST to the URL the tool's own configuration check
\* tested and to no other tool's, with the bearer and content-type headers,
\* and a body of exactly one message, role "user", whose content is the
\* caller's payload.
C10_RequestShape ==
    \A k \in 1..Len(posts) :
        LET i == posts[k].call
            request == posts[k].request
        IN /\ request.method = "POST"
           /\ request.url = globals[CheckedSetting(calls[i].tool)]
           /\ \A other \in RelayTools \ {calls[i].tool} :
                  request.url # globals[CheckedSetting(other)]
           /\ request.headers =
                  PyDict(<<Item(PyStr("Authorization"),
                                PyStr("Bearer " \o globals["DATASAUR_API_KEY"].v)),
                           Item(PyStr("Content-Type"), PyStr("application/json"))>>)
           /\ request.json =
                  PyDict(<<Item(PyStr("messages"),
                                PyList(<<PyDict(<<Item(PyStr("role"), PyStr("user")),
                                                  Item(PyStr("content"), PyStr(Payload(i)))>>)
                                       >>))>>)
           /\ (calls[i].tool = "process_and_send_csv" /\ calls[i].arg = "ab") =>
                  request.json.v[1].v.v[1].v[2].v =
                      PyStr("[{\"a\": 1, \"b\": 2.5}, {\"a\": \"foo\", \"b\": \"\"}]")

\* C10 witness: the request of call_GPT_o3 for a prompt with quotes and a newline
C10_Witness ==
    \E k \in 1..Len(posts) :
        /\ calls[posts[k].call].tool = "call_GPT_o3"
        /\ posts[k].request.url = PyStr("https://datasaur.example/DATASAUR_GPT_O3_API_URL")
        /\ calls[posts[k].call].arg = "{\"a\": 1}\nsay 'hi'"
        /\ posts[k].request.json =
               PyDict(<<Item(PyStr("messages"),
                             PyList(<<PyDict(<<Item(PyStr("role"), PyStr("user")),
                                               Item(PyStr("content"),
                                                    PyStr("{\"a\": 1}\nsay 'hi'"))>>)>>))>>)

\* C11: each cell is coerced by itself: the empty string stays, a string of
\* decimal digits becomes its integer, a string with one "." and otherwise
\* digits becomes a float, and every other string is returned unchanged.
\* Stated for the one-row files of every pair of cell texts, with the value
\* the policy gives each text.  A cell of superscript digits is a digit string
\* for str.isdigit() and int() raises ValueError on it, which nothing catches:
\* TLC finds this violated.
C11_CoercionPolicy ==
    LET Coerced ==
            <<PyStr(""), PyInt(42), PyInt(7), PyFloat("3.14"), PyFloat("0.5"),
              PyFloat("5.0"), PyStr("3.14.15"), PyStr("12a"), PyStr("-5"), PyStr("+7"),
              PyStr("1e5"), PyStr("1_000"), PyStr("1 000"), PyStr("²"), PyStr("1.²")>>
    IN \A c \in Calls : \A ij \in CellIndex :
           (/\ calls[c].tool = "convert_csv_to_json"
            /\ calls[c].arg = CellPath(ij[1], ij[2])) =>
               calls[c].outcome =
                   Value(PyList(<<PyDict(<<Item(PyStr("x"), Coerced[ij[1]]),
                                           Item(PyStr("y"), Coerced[ij[2]])>>)>>))

\* C11 witness: "3.14" beside "12a", one a float and the other left as it is
C11_Witness ==
    \E c \in Calls :
        /\ calls[c].tool = "convert_csv_to_json"
        /\ FileAt(calls[c].arg).text = "x,y\n3.14,12a\n"
        /\ calls[c].outcome =
               Value(PyList(<<PyDict(<<Item(PyStr("x"), PyFloat("3.14")),
                                       Item(PyStr("y"), PyStr("12a"))>>)>>))

\* C12: for a well-formed file with a header row, convert_csv_to_json returns
\* one mapping per data row, in file order, each header name with the coerced
\* value of the cell of its column: the files "ab", "mixed" and "header"
\* (no data row) with the rows they hold, and every one-row file of two cells
\* with exactly one mapping of x and y to the two cells' values.
\* A well-formed file with a cell of superscript digits (C11) gives no
\* mapping at all, ValueError leaves the tool: TLC finds this violated.
C12_OneMappingPerRow ==
    \A c \in Calls :
        calls[c].tool = "convert_csv_to_json" =>
            /\ calls[c].arg = "ab" =>
                   calls[c].outcome =
                       Value(PyList(<<PyDict(<<Item(PyStr("a"), PyInt(1)),
                                               Item(PyStr("b"), PyFloat("2.5"))>>),
                                      PyDict(<<Item(PyStr("a"), PyStr("foo")),
                                               Item(PyStr("b"), PyStr(""))>>)>>))
            /\ calls[c].arg = "mixed" =>
                   calls[c].outcome =
                       Value(PyList(<<PyDict(<<Item(PyStr("x"), PyInt(7)),
                                               Item(PyStr("y"), PyStr("3.14.15"))>>),
                                      PyDict(<<Item(PyStr("x"), PyStr("12a")),
                                               Item(PyStr("y"), PyStr("-5"))>>),
                                      PyDict(<<Item(PyStr("x"), PyFloat("0.5")),
                                               Item(PyStr("y"), PyFloat("5.0"))>>)>>))
            /\ calls[c].arg = "header" => calls[c].outcome = Value(PyList(<<>>))
            /\ \A ij \in CellIndex :
                   calls[c].arg = CellPath(ij[1], ij[2]) =>
                       /\ calls[c].outcome.kind = "value"
                       /\ Len(calls[c].outcome.v.v) = 1
                       /\ Len(calls[c].outcome.v.v[1].v) = 2
                       /\ Coerce(PyStr(CellTexts[ij[1]])) =
                              Value(Lookup(calls[c].outcome.v.v[1], PyStr("x")))
                       /\ Coerce(PyStr(CellTexts[ij[2]])) =
                              Value(Lookup(calls[c].outcome.v.v[1], PyStr("y")))

\* C12 witness: the file a,b / 1,2.5 / foo,<empty> converted
C12_Witness ==
    \E c \in Calls :
        /\ calls[c].tool = "convert_csv_to_json"
        /\ FileAt(calls[c].arg).text = "a,b\n1,2.5\nfoo,\n"
        /\ Len(calls[c].outcome.v.v) = 2
        /\ Lookup(calls[c].outcome.v.v[2], PyStr("a")) = PyStr("foo")

\* C13: on a file-access fault (the path does not exist, names a directory,
\* or the file cannot be opened, read or decoded) convert_csv_to_json raises
\* nothing and returns a list of exactly one mapping whose only key is
\* 'error', with a string that describes the fault; the list holds no data row.
C13_FileFaultsReported ==
    \A c \in Calls :
        (/\ calls[c].tool = "convert_csv_to_json"
         /\ FileAt(calls[c].arg).kind # "regular") =>
            /\ calls[c].outcome.kind = "value"
            /\ calls[c].outcome.v.t = "list"
            /\ Len(calls[c].outcome.v.v) = 1
            /\ calls[c].outcome.v.v[1].t = "dict"
            /\ Len(calls[c].outcome.v.v[1].v) = 1
            /\ calls[c].outcome.v.v[1].v[1].k = PyStr("error")
            /\ calls[c].outcome.v.v[1].v[1].v.t = "str"
            /\ LET kind == FileAt(calls[c].arg).kind
                   error == calls[c].outcome.v.v[1].v[1].v.v
               IN /\ kind = "missing" => error = "File not found at path: " \o calls[c].arg
                  /\ kind = "directory" => error = "Path is not a file: " \o calls[c].arg
                  /\ kind = "vanished" => error = "File not found: " \o calls[c].arg
                  /\ kind = "denied" => error = "Permission denied: " \o calls[c].arg
                  /\ kind = "undecodable" => StartsAt(error, 1, "Error reading file: ")

\* C13 witness: a file that is not UTF-8, reported with the decoder's message
C13_Witness ==
    \E c \in Calls :
        /\ calls[c].tool = "convert_csv_to_json"
        /\ calls[c].arg = "binary"
        /\ calls[c].outcome =
               Value(PyList(<<PyDict(<<Item(PyStr("error"),
                   PyStr("Error reading file: 'utf-8' codec can't decode byte 0xff in position 0: invalid start byte"))>>)>>))

\* C14: for a file that convert_csv_to_json reads and converts, whatever its
\* column names and however many rows, and with the CSV URL and the API key
\* configured, process_and_send_csv posts the JSON serialization of the rows
\* exactly once and ends with a string that is no CSV conversion error.
\* A file whose first row has a column named "error" is taken for a failed
\* conversion (the test is '"error" in json_data[0]'): nothing is posted and
\* "Error processing CSV: <the cell>" is returned.  TLC finds this violated.
C14_ConvertedRowsForwarded ==
    \A i \in Calls :
        (/\ calls[i].tool = "process_and_send_csv"
         /\ Files[calls[i].arg].kind = "regular"
         /\ ConvertFile(calls[i].arg, Files[calls[i].arg]).kind = "value"
         /\ ~Misconfigured("process_and_send_csv")) =>
            /\ Cardinality(PostsOf(i)) = 1
            /\ \A k \in PostsOf(i) :
                   posts[k].request.json.v[1].v.v[1].v[2].v =
                       PyStr(JsonDumps(ConvertFile(calls[i].arg, Files[calls[i].arg]).v))
            /\ Resolved(i) =>
                   /\ calls[i].outcome.kind = "return"
                   /\ ~StartsAt(calls[i].outcome.v, 1, "Error processing CSV")

\* C14 witness: a file with a header and no data row, posted as "[]"
C14_Witness ==
    \E i \in Calls :
        /\ calls[i].tool = "process_and_send_csv"
        /\ calls[i].arg = "header"
        /\ Resolved(i)
        /\ \E k \in PostsOf(i) : posts[k].request.json.v[1].v.v[1].v[2].v = PyStr("[]")
        /\ calls[i].outcome = Return("{\n  \"a\": 1\n}")

\* C15: every mapping convert_csv_to_json returns for a readable file maps
\* column names that are strings to values that are an int, a float or a str,
\* also when a row has fewer or more cells than the header.
\* csv.DictReader fills the missing cells of a short row with None, which the
\* coercion passes on as it is (and a long row's surplus cells, a list under
\* the key None, end the call with AttributeError): TLC finds this violated.
C15_RowValueTypes ==
    \A c \in Calls :
        (/\ calls[c].tool = "convert_csv_to_json"
         /\ FileAt(calls[c].arg).kind = "regular"
         /\ calls[c].outcome.kind = "value") =>
            \A r \in 1..Len(calls[c].outcome.v.v) :
                \A k \in 1..Len(calls[c].outcome.v.v[r].v) :
                    /\ calls[c].outcome.v.v[r].v[k].k.t = "str"
                    /\ calls[c].outcome.v.v[r].v[k].v.t \in {"int", "float", "str"}

\* C15 witness: the three kinds of value in one file
C15_Witness ==
    \E c \in Calls :
        /\ calls[c].tool = "convert_csv_to_json"
        /\ calls[c].arg = "ab"
        /\ calls[c].outcome.kind = "value"
        /\ {calls[c].outcome.v.v[r].v[k].v.t : r \in 1..2, k \in 1..2} = {"int", "float", "str"}

\* C16: missing configuration never ends the process at startup: whatever
\* settings are unset, only the transport selection decides whether the server
\* runs; an invocation gets the configuration error exactly when its own
\* tool's URL or the API key is missing, and a tool whose URL and the key are
\* set makes its request whatever else is unset.
C16_ConfigErrorOnlyWhenInvoked ==
    /\ process.pc = "exited" => Getenv(process.TRANSPORT, PyStr("stdio")) # PyStr("stdio")
    /\ \A i \in Calls :
           ReachedCheck(i) =>
               /\ Misconfigured(calls[i].tool) <=>
                      /\ Resolved(i)
                      /\ calls[i].outcome =
                             Return("Error: Datasaur " \o ApiName(calls[i].tool)
                                      \o " API configuration missing on server.")
               /\ ~Misconfigured(calls[i].tool) => Cardinality(PostsOf(i)) = 1

\* C16 witness: the server runs without the GPT-4.1 URL, and call_GPT_o3 has
\* made its request
C16_Witness ==
    /\ process.pc = "serving"
    /\ globals["DATASAUR_GPT41_API_URL"] = PyNone
    /\ \E i \in Calls :
           /\ calls[i].tool = "call_GPT_o3"
           /\ calls[i].pc = "awaiting"
           /\ Cardinality(PostsOf(i)) = 1

\* C17: the invocations share no mutable state: no step writes the settings
\* after startup, and however the invocations interleave at their awaits,
\* each one's result is the result of the same tool run alone on the same
\* input, with the reply it got itself.
C17_NoSharedState ==
    /\ [][globals' = globals]_vars
    /\ [](\A i \in Calls :
             Resolved(i) =>
                 calls[i].outcome =
                     IF calls[i].reply.kind # "none"
                     THEN Resume(calls[i].tool, calls[i].reply)
                     ELSE IF calls[i].tool \in PromptTools
                     THEN StartPrompt(calls[i].tool, calls[i].arg)
                     ELSE StartCsv(calls[i].arg, Files[calls[i].arg]))

\* C17 witness: the second invocation has resolved with its own reply while
\* the first, of the same tool, still awaits
C17_Witness ==
    /\ Len(calls) = 2
    /\ calls[1].tool = "call_GPT_4_1"
    /\ calls[2].tool = "call_GPT_4_1"
    /\ calls[1].pc = "awaiting"
    /\ calls[2].reply = RequestError("ConnectError", "All connection attempts failed")
    /\ calls[2].outcome = Return("Error: API request failed: All connection attempts failed")

\* C18: an invocation resolves exactly once (once resolved it stays resolved
\* with the same result), every invocation whose client.post completes ends
\* with a string, success or error, and a timeout gives the request-failed
\* error string and nothing of a result.
\* An invocation whose 2xx reply is JSON of another shape than the envelope
\* (C1) resolves with an exception and never returns a string: TLC finds this
\* violated.
C18_EventuallyReturnsString ==
    /\ [][\A i \in 1..Len(calls) :
              calls[i].pc = "resolved" =>
                  /\ calls'[i].pc = "resolved"
                  /\ calls'[i].outcome = calls[i].outcome]_vars
    /\ [](\A i \in 1..Len(calls) :
              (calls[i].pc = "resolved" /\ calls[i].reply = RequestError("ReadTimeout", "")) =>
                  calls[i].outcome = Return("Error: API request failed: "))
    /\ \A i \in 1..MaxCalls :
           (i <= Len(calls)) ~>
               (/\ i <= Len(calls)
                /\ calls[i].pc = "resolved"
                /\ calls[i].outcome.kind = "return")

\* C18 witness: two invocations, one resolved on a timeout with the error
\* string, one with the content of its reply
C18_Witness ==
    /\ Len(calls) = 2
    /\ calls[1].reply = RequestError("ReadTimeout", "")
    /\ calls[1].outcome = Return("Error: API request failed: ")
    /\ calls[2].reply.kind = "response"
    /\ calls[2].outcome = Return("hello")

\* C19: once __main__ has made its transport selection, the server runs
\* exactly when TRANSPORT is unset or is 'stdio'; with any other selection
\* (another transport, the empty string, another spelling) the process has
\* exited with a non-zero status and has served no tool invocation.
C19_OnlyStdioServes ==
    process.pc # "main" =>
        IF process.TRANSPORT = PyNone \/ process.TRANSPORT = PyStr("stdio")
        THEN process.pc = "serving" /\ process.exit_status = PyNone
        ELSE /\ process.pc = "exited"
             /\ process.exit_status.t = "int"
             /\ process.exit_status.v # 0
             /\ calls = <<>>
             /\ posts = <<>>

\* C19 witness: TRANSPORT=sse, exit status 1
C19_Witness ==
    /\ process.TRANSPORT = PyStr("sse")
    /\ process.pc = "exited"
    /\ process.exit_status = PyInt(1)

\* C20: when the conversion fails on the file (no such path, not a file, not
\* readable), process_and_send_csv posts nothing and returns "Error processing
\* CSV: " followed by the conversion's message, whether or not the CSV URL and
\* the API key are configured: the configuration check is never reached.
C20_ConversionErrorFirst ==
    \A i \in Calls :
        (/\ calls[i].tool = "process_and_send_csv"
         /\ Files[calls[i].arg].kind # "regular") =>
            /\ Resolved(i)
            /\ PostsOf(i) = {}
            /\ calls[i].reply = NoReply
            /\ LET kind == Files[calls[i].arg].kind
               IN calls[i].outcome =
                      Return("Error processing CSV: " \o
                             (CASE kind = "missing" -> "File not found at path: " \o calls[i].arg
                                [] kind = "directory" -> "Path is not a file: " \o calls[i].arg
                                [] kind = "vanished" -> "File not found: " \o calls[i].arg
                                [] kind = "denied" -> "Permission denied: " \o calls[i].arg
                                [] kind = "undecodable" ->
                                       "Error reading file: " \o Files[calls[i].arg].text))

\* C20 witness: a directory, with the CSV URL unset
C20_Witness ==
    \E i \in Calls :
        /\ calls[i].tool = "process_and_send_csv"
        /\ calls[i].arg = "reports"
        /\ globals["DATASAUR_CSV_API_URL"] = PyNone
        /\ calls[i].outcome = Return("Error processing CSV: Path is not a file: reports")
        /\ posts = <<>>

\* C21: the failure checks come in a fixed order and the first that fails
\* gives the result: (process_and_send_csv) the conversion error of the file,
\* then the missing configuration, then the request error, then the non-2xx
\* status, then the body that is not JSON, then the missing choices, then the
\* missing message content.  A request is made only when the first two passed,
\* and what a later check would have found (a missing setting behind a
\* missing file, the body behind a failed status) changes nothing.  A file
\* whose conversion ends the invocation otherwise makes no request either.
C21_FirstFailureDecides ==
    \A i \in Calls :
        LET tool == calls[i].tool
            reply == calls[i].reply
            outcome == calls[i].outcome
        IN tool \in RelayTools =>
             IF tool = "process_and_send_csv" /\ Files[calls[i].arg].kind # "regular"
             THEN /\ Resolved(i) /\ PostsOf(i) = {} /\ reply = NoReply
                  /\ outcome.kind = "return"
                  /\ StartsAt(outcome.v, 1, "Error processing CSV: ")
             ELSE IF ~ReachedCheck(i)
             THEN Resolved(i) /\ PostsOf(i) = {} /\ reply = NoReply
             ELSE IF Misconfigured(tool)
                  THEN /\ Resolved(i) /\ PostsOf(i) = {} /\ reply = NoReply
                       /\ outcome = Return("Error: Datasaur " \o ApiName(tool)
                                             \o " API configuration missing on server.")
                  ELSE /\ Cardinality(PostsOf(i)) = 1
                       /\ Resolved(i) =>
                            IF reply.kind = "error"
                            THEN outcome = Return("Error: API request failed: " \o reply.msg)
                            ELSE IF reply.status_code \notin 200..299
                            THEN outcome = Return("Error: API request failed with status "
                                                    \o ToString(reply.status_code)
                                                    \o ". Check server logs.")
                            ELSE IF Body(i).kind = "raise"
                            THEN outcome =
                                     Return(IF tool = "process_and_send_csv"
                                            THEN "Error: An unexpected error occurred during API request. Check server logs."
                                            ELSE "Error: An unexpected error occurred during "
                                                   \o ApiName(tool) \o " API request. Check server logs.")
                            ELSE IF /\ IsDict(Body(i).v)
                                    /\ \/ ~Has(Body(i).v, "choices")
                                       \/ /\ IsList(Get(Body(i).v, "choices"))
                                          /\ Len(Get(Body(i).v, "choices").v) = 0
                            THEN outcome = Return("Error: Received unexpected response format from "
                                                    \o ApiName(tool) \o " API (missing choices).")
                            ELSE IF /\ HasChoiceArray(i)
                                    /\ IsDict(Choice0(i))
                                    /\ \/ ~Has(Choice0(i), "message")
                                       \/ /\ IsDict(Get(Choice0(i), "message"))
                                          /\ ~Has(Get(Choice0(i), "message"), "content")
                            THEN outcome = Return("Error: Received unexpected response format from "
                                                    \o ApiName(tool) \o " API (missing message content).")
                            ELSE HasContent(i) =>
                                     /\ outcome.kind = "return"
                                     /\ ~StartsAt(outcome.v, 1, "Error: ")

\* C21 witness: a 404 whose body is not JSON either: the status decides
C21_Witness ==
    \E i \in Calls :
        /\ calls[i].tool = "call_email_helper"
        /\ calls[i].reply = Response(404, "<html>Bad Gateway</html>")
        /\ calls[i].outcome =
               Return("Error: API request failed with status 404. Check server logs.")
        /\ Cardinality(PostsOf(i)) = 1

====
